---- MODULE Spec2Model ----
(***************************************************************************)
(* A model of the console Wordle game in src/wordle.py: the guess          *)
(* evaluator (evaluate_guess), the time-based score (calculate_score), the *)
(* input validation of the prompts, one game session (play_one_game), the  *)
(* replay loop (play_wordle) and the high-score file.                      *)
(*                                                                         *)
(* A word, an input line and a line of a file are sequences of one-        *)
(* character strings.  Feedback marks are the numbers the code uses:       *)
(* 2 = Hit, 1 = Present, 0 = Miss.                                         *)
(***************************************************************************)
EXTENDS Integers, Sequences, FiniteSets, TLC

VARIABLES
    args,        \* the arguments of the pure function under check (SpecEval, SpecScore)
    ret,         \* <<>> before the call, <<returned value>> after it
    pc,          \* where the process is: "start", a prompt ("name", "guess",
                 \* "replay"), a pure call ("call") or "exit"
    target_file, \* target_words.txt: [exists, lines]
    valid_file,  \* all_words.txt: [exists, lines]
    store,       \* high_scores.csv: [exists, rows], a row a sequence of cells
    locals,      \* the local variables of play_one_game that are bound
    outcome,     \* "none", or the handler the session ended in: "Won", "Lost"
    win_report,  \* <<>>, or <<what handle_win got from calculate_score>>
    last_input,  \* the last line read by input(), or the exception it raised
    message,     \* the last message printed
    games,       \* the number of sessions started so far
    exit_status, \* <<>> while the process runs, <<status>> once it has ended
    shown,       \* <<the table display_high_scores printed in the last
                 \* step>>, or <<>> when the step did not print it
    io_errors    \* the operations on high_scores.csv that fail in this run:
                 \* a subset of {"read", "write"}

vars == <<args, ret, pc, target_file, valid_file, store, locals, outcome,
          win_report, last_input, message, games, exit_status, shown, io_errors>>

gameVars == <<pc, target_file, valid_file, store, locals, outcome,
              win_report, last_input, message, games, exit_status, shown,
              io_errors>>

(***************************************************************************)
(* Program constants.                                                      *)
(***************************************************************************)
MAX_ATTEMPTS == 6
SECRET_WORD_LENGTH == 5
TIME_PENALTY_PER_SECOND == 1
MAX_ALLOWED_TIME == 3600
BASE_SCORE == 3600
MAX_NAME_LENGTH == 50
TOP_N == 10

Hit == 2
Present == 1
Miss == 0

(***************************************************************************)
(* Bounds of the model.                                                    *)
(***************************************************************************)
\* the number of letters the exhaustive evaluator check draws its words from
AlphabetSize == 3

Pending == <<>>
Returned == ret # Pending
Result == ret[1]

(***************************************************************************)
(* Characters: str.lower(), str.strip(), str.isalpha().                    *)
(***************************************************************************)
LowerCase == <<"a","b","c","d","e","f","g","h","i","j","k","l","m",
               "n","o","p","q","r","s","t","u","v","w","x","y","z">>
UpperCase == <<"A","B","C","D","E","F","G","H","I","J","K","L","M",
               "N","O","P","Q","R","S","T","U","V","W","X","Y","Z">>
Whitespace == {" ", "\t", "\n"}

Letters == {LowerCase[i] : i \in 1..Len(LowerCase)}
               \cup {UpperCase[i] : i \in 1..Len(UpperCase)}

\* the lowercase and the uppercase form of each letter
LowerOf == [c \in Letters |->
              LET i == CHOOSE k \in 1..Len(LowerCase) :
                           LowerCase[k] = c \/ UpperCase[k] = c
              IN  LowerCase[i]]
UpperOf == [c \in Letters |->
              LET i == CHOOSE k \in 1..Len(LowerCase) :
                           LowerCase[k] = c \/ UpperCase[k] = c
              IN  UpperCase[i]]

LowerChar(c) == IF c \in Letters THEN LowerOf[c] ELSE c

UpperChar(c) == IF c \in Letters THEN UpperOf[c] ELSE c

\* str.lower()
Lower(s) == [i \in 1..Len(s) |-> LowerChar(s[i])]

\* str.strip(): leading and trailing whitespace removed
Strip(s) ==
    LET keep == {i \in 1..Len(s) : s[i] \notin Whitespace}
    IN  IF keep = {} THEN <<>>
        ELSE LET lo == CHOOSE i \in keep : \A j \in keep : i <= j
                 hi == CHOOSE i \in keep : \A j \in keep : j <= i
             IN  SubSeq(s, lo, hi)

\* str.isalpha(): non-empty and letters only
IsAlpha(s) == Len(s) > 0 /\ \A i \in 1..Len(s) : s[i] \in Letters

(***************************************************************************)
(* evaluate_guess                                                          *)
(***************************************************************************)
Positions == 1..SECRET_WORD_LENGTH

initialize_feedback_list == [i \in Positions |-> 0]

initialize_secret_usage_list == [i \in Positions |-> FALSE]

\* A first pass that marks the exact matches and forgets to consume them.
FirstPassNoConsume(guessed_word, secret_word) ==
    [feedback_scores |->
        [p \in Positions |->
            IF guessed_word[p] = secret_word[p] THEN Hit
            ELSE initialize_feedback_list[p]],
     letter_usage_flags |-> initialize_secret_usage_list]

\* First pass: the exact matches, each marked 2 and its secret position used.
FirstPass(guessed_word, secret_word) ==
    [feedback_scores |->
        [p \in Positions |->
            IF guessed_word[p] = secret_word[p] THEN Hit
            ELSE initialize_feedback_list[p]],
     letter_usage_flags |->
        [p \in Positions |->
            IF guessed_word[p] = secret_word[p] THEN TRUE
            ELSE initialize_secret_usage_list[p]]]

\* An inner loop that marks Present and forgets to consume the secret position.
RECURSIVE InnerScanNoConsume(_, _, _, _, _)
InnerScanNoConsume(guessed_word, secret_word, st, guess_position, secret_position) ==
    IF secret_position > SECRET_WORD_LENGTH THEN st
    ELSE IF guessed_word[guess_position] = secret_word[secret_position]
            /\ ~st.letter_usage_flags[secret_position]
         THEN [feedback_scores |->
                  [st.feedback_scores EXCEPT ![guess_position] = Present],
               letter_usage_flags |-> st.letter_usage_flags]
         ELSE InnerScanNoConsume(guessed_word, secret_word, st,
                                 guess_position, secret_position + 1)

\* The inner loop of the second pass: the secret positions from
\* secret_position on, left to right, stopping (break) at the first unused
\* one that holds the guessed letter.
RECURSIVE InnerScan(_, _, _, _, _)
InnerScan(guessed_word, secret_word, st, guess_position, secret_position) ==
    IF secret_position > SECRET_WORD_LENGTH THEN st
    ELSE IF guessed_word[guess_position] = secret_word[secret_position]
            /\ ~st.letter_usage_flags[secret_position]
         THEN [feedback_scores |->
                  [st.feedback_scores EXCEPT ![guess_position] = Present],
               letter_usage_flags |->
                  [st.letter_usage_flags EXCEPT ![secret_position] = TRUE]]
         ELSE InnerScan(guessed_word, secret_word, st,
                        guess_position, secret_position + 1)

\* A second pass that also rescans the positions the first pass marked.
RECURSIVE SecondPassNoHitCheck(_, _, _, _)
SecondPassNoHitCheck(guessed_word, secret_word, st, guess_position) ==
    IF guess_position > SECRET_WORD_LENGTH THEN st
    ELSE SecondPassNoHitCheck(guessed_word, secret_word,
                    InnerScan(guessed_word, secret_word, st, guess_position, 1),
                    guess_position + 1)

\* Second pass: the guess positions from guess_position on, left to right.
RECURSIVE SecondPass(_, _, _, _)
SecondPass(guessed_word, secret_word, st, guess_position) ==
    IF guess_position > SECRET_WORD_LENGTH THEN st
    ELSE SecondPass(guessed_word, secret_word,
                    IF st.feedback_scores[guess_position] = 0
                    THEN InnerScan(guessed_word, secret_word, st, guess_position, 1)
                    ELSE st,
                    guess_position + 1)

\* An evaluator that marks Hit every letter that occurs in the secret,
\* wherever it stands.
evaluate_guess_anywhere(guessed_word, secret_word) ==
    [p \in Positions |->
        IF \E q \in Positions : secret_word[q] = guessed_word[p] THEN Hit
        ELSE Miss]

\* A one-pass evaluator: Present for every letter that occurs in the secret.
evaluate_guess_naive(guessed_word, secret_word) ==
    [p \in Positions |->
        IF guessed_word[p] = secret_word[p] THEN Hit
        ELSE IF \E q \in Positions : secret_word[q] = guessed_word[p] THEN Present
        ELSE Miss]

evaluate_guess(guessed_word, secret_word) ==
    SecondPass(guessed_word, secret_word,
               FirstPass(guessed_word, secret_word), 1).feedback_scores

(***************************************************************************)
(* The evaluator checked as a pure function: every pair of words over the  *)
(* first AlphabetSize letters, and the pairs of the known fixtures.        *)
(***************************************************************************)
EvalLetters == {LowerCase[i] : i \in 1..AlphabetSize}
EvalWords == [Positions -> EvalLetters]

W_hello == <<"h","e","l","l","o">>
W_world == <<"w","o","r","l","d">>
W_cheer == <<"c","h","e","e","r">>
W_chair == <<"c","h","a","i","r">>
W_bells == <<"b","e","l","l","s">>
W_label == <<"l","a","b","e","l">>
W_spear == <<"s","p","e","a","r">>
W_pears == <<"p","e","a","r","s">>

Fixtures == {<<W_hello, W_world>>, <<W_cheer, W_chair>>,
             <<W_bells, W_label>>, <<W_spear, W_pears>>}

\* the game's variables while a pure function is checked on its own
NoGame ==
    /\ pc = "call"
    /\ target_file = [exists |-> FALSE, lines |-> <<>>]
    /\ valid_file = [exists |-> FALSE, lines |-> <<>>]
    /\ store = [exists |-> FALSE, rows |-> <<>>]
    /\ locals = [function |-> "none"]
    /\ outcome = "none"
    /\ win_report = <<>>
    /\ last_input = <<>>
    /\ message = ""
    /\ games = 0
    /\ exit_status = <<>>
    /\ shown = <<>>
    /\ io_errors = {}

InitEval ==
    /\ args \in (EvalWords \X EvalWords) \cup Fixtures
    /\ ret = Pending
    /\ NoGame

CallEvaluate ==
    /\ pc = "call"
    /\ ret = Pending
    /\ ret' = <<evaluate_guess(args[1], args[2])>>
    /\ UNCHANGED <<args, gameVars>>

NextEval == CallEvaluate

SpecEval == InitEval /\ [][NextEval]_vars

(***************************************************************************)
(* Bounds of the game model.                                               *)
(***************************************************************************)
\* the sessions one run of the process may start
MaxGames == 2
\* the clock's resolution: time.time() readings are counted in ticks
TicksPerSecond == 2

(***************************************************************************)
(* Word lists: validate_game_files and load_words.                         *)
(***************************************************************************)
NL == "\n"

\* the cleaned word of a line, as load_words computes it
CleanLine(raw_line) == Lower(Strip(raw_line))

\* the test a cleaned line passes to be loaded: non-empty, of the word
\* length, alphabetic
LineIsWord(cleaned_word) ==
    /\ cleaned_word # <<>>
    /\ Len(cleaned_word) = SECRET_WORD_LENGTH
    /\ IsAlpha(cleaned_word)

RECURSIVE LoadLines(_)
LoadLines(lines) ==
    IF lines = <<>> THEN <<>>
    ELSE LET cleaned_word == CleanLine(Head(lines))
         IN  (IF LineIsWord(cleaned_word) THEN <<cleaned_word>> ELSE <<>>)
                \o LoadLines(Tail(lines))

\* load_words: the list of the valid words of the file, [] when the file is
\* missing or holds none
load_words(file) == IF ~file.exists THEN <<>> ELSE LoadLines(file.lines)

validate_game_files(tf, vf) == tf.exists /\ vf.exists

SetOf(seq) == {seq[i] : i \in 1..Len(seq)}

(***************************************************************************)
(* calculate_score.  Clock readings are in ticks; int() truncates the      *)
(* elapsed time to whole seconds.                                          *)
(***************************************************************************)
\* int(x) of a time difference of d ticks: truncation towards zero
IntSeconds(d) == IF d >= 0 THEN d \div TicksPerSecond ELSE -((-d) \div TicksPerSecond)

Max(a, b) == IF a >= b THEN a ELSE b

\* A score without the floor at zero.
calculate_score_unclamped(start_time, end_time) ==
    LET total_seconds == IntSeconds(end_time - start_time)
        penalty == total_seconds * TIME_PENALTY_PER_SECOND
    IN  [final_score |-> BASE_SCORE - penalty,
         total_seconds |-> total_seconds,
         score_valid |-> total_seconds <= MAX_ALLOWED_TIME]

calculate_score(start_time, end_time) ==
    LET total_seconds == IntSeconds(end_time - start_time)
        raw_score == BASE_SCORE
        penalty == total_seconds * TIME_PENALTY_PER_SECOND
        final_score == Max(0, raw_score - penalty)
        score_valid == total_seconds <= MAX_ALLOWED_TIME
    IN  [final_score |-> final_score,
         total_seconds |-> total_seconds,
         score_valid |-> score_valid]

(***************************************************************************)
(* The high-score file: save_high_score.  A row is a sequence of cells, a  *)
(* cell the text csv writes; the first row of a file the code created is   *)
(* the header.                                                             *)
(***************************************************************************)
Digits == <<"0","1","2","3","4","5","6","7","8","9">>

\* str(n) for an integer n
RECURSIVE NatToStr(_)
NatToStr(n) ==
    IF n < 10 THEN <<Digits[n + 1]>>
    ELSE NatToStr(n \div 10) \o <<Digits[(n % 10) + 1]>>

IntToStr(n) == IF n < 0 THEN <<"-">> \o NatToStr(-n) ELSE NatToStr(n)

fieldnames == << <<"s","c","o","r","e">>, <<"n","a","m","e">>, <<"d","a","t","e">> >>

\* the row DictWriter writes for new_entry
EntryRow(player_name, score, current_date) ==
    <<IntToStr(score), player_name, current_date>>

\* A save that writes the file anew (mode 'w'): header and the new row only.
save_high_score_rewriting(st, player_name, score, current_date) ==
    [exists |-> TRUE,
     rows |-> <<fieldnames, EntryRow(player_name, score, current_date)>>]

\* save_high_score: the file after the call (mode 'a': the header when the
\* file did not exist, then the new row at the end)
save_high_score(st, player_name, score, current_date) ==
    LET file_exists == st.exists
    IN  [exists |-> TRUE,
         rows |-> st.rows
                    \o (IF ~file_exists THEN <<fieldnames>> ELSE <<>>)
                    \o <<EntryRow(player_name, score, current_date)>>]

(***************************************************************************)
(* The high-score file: load_high_scores.  csv.DictReader takes the first  *)
(* non-blank row as the field names and pairs the cells of every later     *)
(* non-blank row with them; a field the row is too short for is None.  A   *)
(* field read from a row is <<"str", cell>>, <<"None">>, or <<"KeyError">> *)
(* when the header lacks the field name.                                   *)
(***************************************************************************)
\* a byte that is no complete character: the file does not decode as UTF-8
BrokenByte == "<C3>"

\* the text of the file decodes
Decodes(st) ==
    \A i \in 1..Len(st.rows) : \A j \in 1..Len(st.rows[i]) :
        \A k \in 1..Len(st.rows[i][j]) : st.rows[i][j][k] # BrokenByte

DigitChars == {Digits[i] : i \in 1..Len(Digits)}

DigitOf(c) == (CHOOSE i \in 1..Len(Digits) : Digits[i] = c) - 1

\* the digits of a literal, its sign taken off
Unsigned(s) == IF s # <<>> /\ s[1] \in {"+", "-"} THEN Tail(s) ELSE s

\* the text between the sign and the end is digits, single underscores
\* allowed between them
IsIntBody(body) ==
    /\ body # <<>>
    /\ \A i \in 1..Len(body) : body[i] \in DigitChars \cup {"_"}
    /\ body[1] # "_"
    /\ body[Len(body)] # "_"
    /\ \A i \in 1..(Len(body) - 1) : ~(body[i] = "_" /\ body[i + 1] = "_")

\* int(cell) does not raise ValueError: optional whitespace around an
\* optional sign and digits
IsIntLiteral(cell) == IsIntBody(Unsigned(Strip(cell)))

RECURSIVE DigitsValue(_)
DigitsValue(body) ==
    IF body = <<>> THEN 0
    ELSE IF body[Len(body)] = "_" THEN DigitsValue(SubSeq(body, 1, Len(body) - 1))
    ELSE 10 * DigitsValue(SubSeq(body, 1, Len(body) - 1)) + DigitOf(body[Len(body)])

\* the value of a literal without whitespace around it
SignedValue(s) ==
    IF s[1] = "-" THEN -DigitsValue(Tail(s)) ELSE DigitsValue(Unsigned(s))

\* int(cell) of a cell that is a literal
IntOf(cell) == SignedValue(Strip(cell))

\* the rows csv.DictReader does not skip
NonBlank(rows) == SelectSeq(rows, LAMBDA row : row # <<>>)

\* the column DictReader reads a field from: the last one of that name in
\* the header, or 0 when the header has none
Column(header, key) ==
    IF \A i \in 1..Len(header) : header[i] # key THEN 0
    ELSE CHOOSE i \in 1..Len(header) :
            header[i] = key /\ \A j \in (i + 1)..Len(header) : header[j] # key

\* the cell of a row in a column
CellAt(row, column) ==
    IF column = 0 THEN <<"KeyError">>
    ELSE IF column <= Len(row) THEN <<"str", row[column]>>
    ELSE <<"None">>

\* row[key] of the dictionary DictReader makes of a row under a header
Field(header, row, key) == CellAt(row, Column(header, key))

F_score == <<"s","c","o","r","e">>
F_name == <<"n","a","m","e">>
F_date == <<"d","a","t","e">>

\* int(f) raises ValueError, or row['score'] raised KeyError
FieldSkipped(f) ==
    \/ f = <<"KeyError">>
    \/ f[1] = "str" /\ ~IsIntLiteral(f[2])

\* int(row['score']) raises ValueError or KeyError: the row is skipped
RowSkipped(header, row) == FieldSkipped(Field(header, row, F_score))

\* int(row['score']) raises TypeError, which the loop does not catch
RowRaises(header, row) == Field(header, row, F_score) = <<"None">>

\* the dictionary appended to high_scores for a row that is kept
Entry(header, row) ==
    [score |-> IntOf(Field(header, row, F_score)[2]),
     name |-> Field(header, row, F_name),
     date |-> Field(header, row, F_date)]

\* the entries of a ranking that come before a new entry of a score, when
\* ties are broken for the new entry
AheadBeforeTies(ranked, score) ==
    Cardinality({i \in 1..Len(ranked) : ranked[i].score > score})

\* the entries of a ranking that come before a new entry of a score: those
\* of greater or equal score
Ahead(ranked, score) ==
    Cardinality({i \in 1..Len(ranked) : ranked[i].score >= score})

\* an entry put into a ranking after the first n entries
InsertAt(ranked, entry, n) ==
    SubSeq(ranked, 1, n) \o <<entry>> \o SubSeq(ranked, n + 1, Len(ranked))

\* one entry put into a ranking, after the entries of greater or equal score
InsertByScore(ranked, entry) == InsertAt(ranked, entry, Ahead(ranked, entry.score))

\* sorted(high_scores, key=score, reverse=True): descending, and stable
RECURSIVE SortedByScore(_)
SortedByScore(high_scores) ==
    IF high_scores = <<>> THEN <<>>
    ELSE InsertByScore(SortedByScore(SubSeq(high_scores, 1, Len(high_scores) - 1)),
                       high_scores[Len(high_scores)])

\* A ranking that is not cut.
FirstAll(ranked) == ranked

\* ranked[:10]
FirstTopN(ranked) ==
    SubSeq(ranked, 1, IF Len(ranked) < TOP_N THEN Len(ranked) ELSE TOP_N)

\* the entries of the rows that are kept, in file order
RECURSIVE KeptEntries(_, _)
KeptEntries(header, rows) ==
    IF rows = <<>> THEN <<>>
    ELSE IF RowSkipped(header, Head(rows)) THEN KeptEntries(header, Tail(rows))
    ELSE <<Entry(header, Head(rows))>> \o KeptEntries(header, Tail(rows))

\* a row after the header raises what the loop does not catch
SomeRowRaises(rows) ==
    /\ rows # <<>>
    /\ \E i \in 2..Len(rows) : RowRaises(rows[1], rows[i])

\* the outer try of load_high_scores ends in its except clause: the file
\* cannot be opened or decoded, or a row raises what the loop does not catch
LoadFails(st, io) ==
    \/ "read" \in io
    \/ ~Decodes(st)
    \/ SomeRowRaises(NonBlank(st.rows))

\* the ranking of the rows DictReader reads: the first is the header
RankingOf(rows) ==
    IF rows = <<>> THEN <<>>
    ELSE FirstTopN(SortedByScore(KeptEntries(rows[1], Tail(rows))))

\* load_high_scores, with the file st and the failing operations io
load_high_scores_io(st, io) ==
    IF ~st.exists THEN <<>>
    ELSE IF LoadFails(st, io) THEN <<>>
    ELSE RankingOf(NonBlank(st.rows))

\* load_high_scores when every file operation succeeds
load_high_scores(st) == load_high_scores_io(st, {})

\* str.upper()
Upper(s) == [i \in 1..Len(s) |-> UpperChar(s[i])]

\* the line display_high_scores prints for an entry cannot be formatted:
\* entry['name'] is None (no upper()) or the entry lacks 'name' or 'date'
LineRaises(entry) == entry.name[1] # "str" \/ entry.date = <<"KeyError">>

\* the line of the table for the entry of a rank
TableLine(index, entry) ==
    [rank |-> index, score |-> entry.score, name |-> Upper(entry.name[2]),
     date |-> entry.date]

\* the rest of display_high_scores once the scores are loaded
DisplayLoaded(high_scores) ==
    IF high_scores = <<>>
    THEN [raised |-> FALSE, table |-> <<>>]
    ELSE IF \E i \in 1..Len(high_scores) : LineRaises(high_scores[i])
    THEN [raised |-> TRUE, table |-> <<>>]
    ELSE [raised |-> FALSE,
          table |-> [i \in 1..Len(high_scores) |-> TableLine(i, high_scores[i])]]

\* display_high_scores: whether it raises, and the table it prints (empty
\* when it prints the invitation to be the first)
display_high_scores(st, io) ==
    IF ~st.exists \/ st.rows = <<>>
    THEN [raised |-> FALSE, table |-> <<>>]
    ELSE DisplayLoaded(load_high_scores_io(st, io))

(***************************************************************************)
(* The environment: the files the process may find and the lines the       *)
(* player may type.                                                        *)
(***************************************************************************)
GoodValidLines ==
    << <<"h","e","l","l","o",NL>>, <<"W","o","r","l","d",NL>>,
       <<"w","0","r","l","d",NL>>, <<NL>>, <<"w","o","r","l","d","s",NL>> >>

GoodTargetLines ==
    << <<"w","o","r","l","d",NL>>, <<" ","H","E","L","L","O"," ",NL>>,
       <<"a","b","c",NL>> >>

\* a target pool with a word the vocabulary lacks
OtherTargetLines ==
    << <<"c","h","e","e","r",NL>>, <<"w","o","r","l","d",NL>> >>

NoWordLines == << <<"w","0","r","l","d",NL>>, <<"a","b","c",NL>> >>

File(lines) == [exists |-> TRUE, lines |-> lines]
Missing == [exists |-> FALSE, lines |-> <<>>]

FileConfigs ==
    { [target |-> File(GoodTargetLines), valid |-> File(GoodValidLines)],
      [target |-> File(OtherTargetLines), valid |-> File(GoodValidLines)],
      [target |-> Missing, valid |-> File(GoodValidLines)],
      [target |-> File(GoodTargetLines), valid |-> File(NoWordLines)] }

D_today == <<"2","0","2","5","-","0","6","-","2","0">>
Dates == {D_today}

N_Bob == <<"B","o","b">>

\* the states the score file is found in when the process starts
InitialStores ==
    { [exists |-> FALSE, rows |-> <<>>],
      [exists |-> TRUE, rows |-> <<>>],
      [exists |-> TRUE,
       rows |-> <<fieldnames, EntryRow(N_Bob, 1200, D_today)>>] }

\* input() raising instead of returning a line
KeyboardInterrupt == <<"KeyboardInterrupt">>
EOFError == <<"EOFError">>
Interrupts == {KeyboardInterrupt, EOFError}

NameInputs ==
    { <<>>, <<" ">>, [i \in 1..(MAX_NAME_LENGTH + 1) |-> "x"],
      <<"b","o","b">>, <<" ","b","O","B"," ">> }

help_command == <<"h","e","l","p">>

GuessInputs ==
    { help_command, <<" ","H","E","L","P"," ">>,
      <<>>, <<" "," ">>,
      <<"h","i">>, <<"w","o","r","l","d","s">>,
      <<"w","0","r","l","d">>, <<"h","e"," ","l","o">>,
      W_cheer, W_hello, W_world,
      <<" ","W","o","r","l","d"," ">> }

YesAnswers == { <<"y","e","s">>, <<"y">>, <<"s","i">>, <<"s">> }
NoAnswers == { <<"n","o">>, <<"n">> }

ReplayInputs ==
    { <<"y","e","s">>, <<" ","Y"," ">>, <<"s","i">>, <<"S">>,
      <<"n","o">>, <<"N">>, <<"m","a","y","b","e">>, <<>> }

\* time.time() when the session starts, in ticks
StartTimes == {7}

\* the ticks between the start of a session and its win: around zero and
\* around the time limit, with the readings between whole seconds
ElapsedTicks ==
    {0, 1} \cup
    ((TicksPerSecond * (MAX_ALLOWED_TIME - 1))
        .. (TicksPerSecond * (MAX_ALLOWED_TIME + 2) - 1))

\* input(...).strip() and input(...).strip().lower() of each line the player
\* may type
Lines == NameInputs \cup GuessInputs \cup ReplayInputs
Stripped == [raw \in Lines |-> Strip(raw)]
StrippedLower == [raw \in Lines |-> Lower(Strip(raw))]

(***************************************************************************)
(* Input validation: greet_player, get_valid_guess, prompt_play_again.     *)
(***************************************************************************)
\* str.capitalize()
Capitalize(s) ==
    [i \in 1..Len(s) |-> IF i = 1 THEN UpperChar(s[i]) ELSE LowerChar(s[i])]

\* greet_player's checks of the stripped name: the message of the check that
\* fails, or "ok"
CheckName(player_name) ==
    IF player_name = <<>> THEN "invalid_name"
    ELSE IF Len(player_name) > MAX_NAME_LENGTH THEN "name_too_long"
    ELSE "ok"

\* A validation that never looks the word up in the allowed list.
CheckGuessNoVocabulary(guess, valid_words) ==
    IF guess = help_command THEN "help"
    ELSE IF guess = <<>> THEN "enter_word"
    ELSE IF Len(guess) # SECRET_WORD_LENGTH THEN "word_length_error"
    ELSE IF ~IsAlpha(guess) THEN "letters_only"
    ELSE "ok"

\* A validation that accepts no word at all.
CheckGuessNeverAccepts(guess, valid_words) ==
    IF guess = help_command THEN "help" ELSE "word_not_valid"

\* get_valid_guess's checks of the stripped, lowercased line, in the code's
\* order: what the loop does with it ("ok": it is returned)
CheckGuess(guess, valid_words) ==
    IF guess = help_command THEN "help"
    ELSE IF guess = <<>> THEN "enter_word"
    ELSE IF Len(guess) # SECRET_WORD_LENGTH THEN "word_length_error"
    ELSE IF ~IsAlpha(guess) THEN "letters_only"
    ELSE IF guess \notin valid_words THEN "word_not_valid"
    ELSE "ok"

\* A reading of the answer that takes everything but a yes as a no.
CheckAnswerOtherIsNo(answer) ==
    IF answer \in YesAnswers THEN "yes" ELSE "no"

\* prompt_play_again's reading of the stripped, lowercased answer
CheckAnswer(answer) ==
    IF answer \in YesAnswers THEN "yes"
    ELSE IF answer \in NoAnswers THEN "no"
    ELSE "yes_no_prompt"

(***************************************************************************)
(* One session: play_one_game, with handle_win and handle_loss.            *)
(***************************************************************************)
Bound(name) == name \in DOMAIN locals

\* no frame of play_one_game: before the first call, and once the process
\* has ended
NoFrame == [function |-> "none"]

\* A loop that allows one guess more than the attempt budget.
LoopContinuesOneMore(number_of_attempts) == number_of_attempts <= MAX_ATTEMPTS

\* the condition of the main loop
LoopContinues(number_of_attempts) == number_of_attempts < MAX_ATTEMPTS

\* A history with the latest attempt first.
RecordAttemptPrepend(score_history, player_guess, guess_score) ==
    <<<<player_guess, guess_score>>>> \o score_history

\* A history that keeps only the latest attempt.
RecordAttemptOverwrite(score_history, player_guess, guess_score) ==
    <<<<player_guess, guess_score>>>>

\* score_history.append((player_guess, guess_score))
RecordAttempt(score_history, player_guess, guess_score) ==
    Append(score_history, <<player_guess, guess_score>>)

\* the win condition
IsWin(player_guess, chosen_secret_word) == player_guess = chosen_secret_word

\* save_high_score with its try: the file cannot be opened for appending,
\* the error is printed and the file is as it was
save_high_score_io(st, player_name, score, current_date, io) ==
    IF "write" \in io THEN st
    ELSE save_high_score(st, player_name, score, current_date)

\* A handle_win that saves the score whether or not it is valid.
HandleWinStoreAlways(st, player_name, report, current_date, io) ==
    save_high_score_io(st, player_name, report.final_score, current_date, io)

\* the score file after handle_win: the score is saved only when valid
HandleWinStore(st, player_name, report, current_date, io) ==
    IF report.score_valid
    THEN save_high_score_io(st, player_name, report.final_score, current_date, io)
    ELSE st

\* An end of the process that reports failure.
ProcessEndsWithFailure ==
    /\ pc' = "exit"
    /\ exit_status' = <<1>>
    /\ locals' = NoFrame

\* the process ends with status 0: sys.exit(0), or play_wordle returns and
\* the script comes to its end
ProcessEnds ==
    /\ pc' = "exit"
    /\ exit_status' = <<0>>
    /\ locals' = NoFrame

\* what follows display_high_scores when it has printed, or raised, d
AfterDisplay(d, loc, msg, nextPc) ==
    IF d.raised
    THEN /\ shown' = <<>>
         /\ message' = "unexpected_error"
         /\ ProcessEnds
    ELSE /\ shown' = <<d.table>>
         /\ message' = msg
         /\ locals' = loc
         /\ pc' = nextPc
         /\ UNCHANGED exit_status

\* display_high_scores of the file st, called where play_one_game goes on
\* with the frame loc and the message msg to the prompt nextPc.  What it
\* raises is caught by no caller but play_wordle, which reports an
\* unexpected error and returns.
ShowScores(st, loc, msg, nextPc) ==
    AfterDisplay(display_high_scores(st, io_errors), loc, msg, nextPc)

\* play_one_game from its first line to the name prompt of greet_player, or
\* to its return False (play_wordle then leaves its loop and the process
\* ends)
BeginGame ==
    /\ games' = games + 1
    /\ outcome' = "none"
    /\ win_report' = <<>>
    /\ IF ~validate_game_files(target_file, valid_file)
       THEN /\ message' = "missing_files"
            /\ shown' = <<>>
            /\ ProcessEnds
       ELSE LET candidate_secret_words == load_words(target_file)
                valid_guess_words == SetOf(load_words(valid_file))
            IN  IF candidate_secret_words = <<>> \/ valid_guess_words = {}
                THEN /\ message' = "could_not_load"
                     /\ shown' = <<>>
                     /\ ProcessEnds
                ELSE \E i \in 1..Len(candidate_secret_words) :
                        ShowScores(store,
                                   [function |-> "play_one_game",
                                    candidate_secret_words |-> candidate_secret_words,
                                    valid_guess_words |-> valid_guess_words,
                                    chosen_secret_word |-> candidate_secret_words[i],
                                    score_history |-> <<>>],
                                   "welcome", "name")
    /\ UNCHANGED <<args, ret, target_file, valid_file, store, io_errors>>

\* the process starts: play_wordle calls play_one_game
Launch ==
    /\ pc = "start"
    /\ BeginGame
    /\ UNCHANGED last_input

\* handle_loss, reached when the loop ends
HandleLoss(loc) ==
    /\ outcome' = "Lost"
    /\ ShowScores(store, loc, "correct_word_was", "replay")
    /\ UNCHANGED <<store, win_report>>

\* a line typed at the name prompt of greet_player
EnterName ==
    /\ pc = "name"
    /\ \E raw \in NameInputs, now \in StartTimes :
         LET player_name == Stripped[raw]
             chk == CheckName(player_name)
             loc == [player_name |-> Capitalize(player_name),
                     number_of_attempts |-> 0,
                     start_time |-> now] @@ locals
         IN  /\ last_input' = raw
             /\ IF chk # "ok"
                THEN /\ message' = chk
                     /\ shown' = <<>>
                     /\ UNCHANGED <<pc, locals, outcome, store, win_report,
                                    exit_status>>
                ELSE IF LoopContinues(0)
                THEN /\ locals' = loc
                     /\ message' = "instructions"
                     /\ pc' = "guess"
                     /\ shown' = <<>>
                     /\ UNCHANGED <<outcome, store, win_report, exit_status>>
                ELSE HandleLoss(loc)
    /\ UNCHANGED <<args, ret, target_file, valid_file, games, io_errors>>

\* a line typed at the guess prompt of get_valid_guess: rejected and asked
\* for again, or returned to the loop of play_one_game, which runs to the
\* next prompt
SubmitGuess ==
    /\ pc = "guess"
    /\ \E raw \in GuessInputs :
         LET guess == StrippedLower[raw]
             chk == CheckGuess(guess, locals.valid_guess_words)
         IN  /\ last_input' = raw
             /\ IF chk # "ok"
                THEN /\ message' = chk
                     /\ shown' = <<>>
                     /\ UNCHANGED <<pc, locals, outcome, store, win_report,
                                    exit_status>>
                ELSE LET number_of_attempts == locals.number_of_attempts + 1
                         guess_score == evaluate_guess(guess, locals.chosen_secret_word)
                         loc == [player_guess |-> guess,
                                 number_of_attempts |-> number_of_attempts,
                                 guess_score |-> guess_score,
                                 score_history |->
                                    RecordAttempt(locals.score_history, guess, guess_score)]
                                @@ locals
                     IN  IF IsWin(guess, locals.chosen_secret_word)
                         THEN \E elapsed \in ElapsedTicks, current_date \in Dates :
                                LET report == calculate_score(locals.start_time,
                                                  locals.start_time + elapsed)
                                    saved == HandleWinStore(store, locals.player_name,
                                                 report, current_date, io_errors)
                                IN  /\ win_report' = <<report>>
                                    /\ store' = saved
                                    /\ outcome' = "Won"
                                    /\ ShowScores(saved, loc,
                                                  IF report.score_valid
                                                  THEN "final_score" ELSE "too_long",
                                                  "replay")
                         ELSE IF LoopContinues(number_of_attempts)
                         THEN /\ locals' = loc
                              /\ message' = "feedback"
                              /\ shown' = <<>>
                              /\ UNCHANGED <<pc, outcome, store, win_report,
                                             exit_status>>
                         ELSE HandleLoss(loc)
    /\ UNCHANGED <<args, ret, target_file, valid_file, games, io_errors>>

\* An interrupt handler that prints the farewell and asks again.
PromptInterruptedAsksAgain ==
    /\ pc \in {"name", "guess", "replay"}
    /\ \E e \in Interrupts : last_input' = e
    /\ message' = "interrupted"
    /\ shown' = <<>>
    /\ UNCHANGED <<args, ret, pc, locals, target_file, valid_file, store, outcome,
                   win_report, games, exit_status, io_errors>>

\* input() raises KeyboardInterrupt or EOFError at a prompt: the farewell,
\* then sys.exit(0) (name, guess) or return False and the end of play_wordle
\* (replay)
PromptInterrupted ==
    /\ pc \in {"name", "guess", "replay"}
    /\ \E e \in Interrupts : last_input' = e
    /\ message' = "interrupted"
    /\ shown' = <<>>
    /\ ProcessEnds
    /\ UNCHANGED <<args, ret, target_file, valid_file, store, outcome,
                   win_report, games, io_errors>>

(***************************************************************************)
(* The replay loop: play_wordle and prompt_play_again.                     *)
(***************************************************************************)
\* an answer that is a yes: the next play_one_game runs to its first prompt
ReplayYes ==
    /\ pc = "replay"
    /\ games < MaxGames
    /\ \E raw \in ReplayInputs :
         /\ CheckAnswer(StrippedLower[raw]) = "yes"
         /\ last_input' = raw
    /\ BeginGame

ReplayNo ==
    /\ pc = "replay"
    /\ \E raw \in ReplayInputs :
         /\ CheckAnswer(StrippedLower[raw]) = "no"
         /\ last_input' = raw
    /\ message' = "goodbye"
    /\ shown' = <<>>
    /\ ProcessEnds
    /\ UNCHANGED <<args, ret, target_file, valid_file, store, outcome,
                   win_report, games, io_errors>>

ReplayOther ==
    /\ pc = "replay"
    /\ \E raw \in ReplayInputs :
         /\ CheckAnswer(StrippedLower[raw]) = "yes_no_prompt"
         /\ last_input' = raw
    /\ message' = "yes_no_prompt"
    /\ shown' = <<>>
    /\ UNCHANGED <<args, ret, pc, target_file, valid_file, store, locals, outcome,
                   win_report, games, exit_status, io_errors>>

Init ==
    /\ args = <<>>
    /\ ret = <<>>
    /\ pc = "start"
    /\ \E cfg \in FileConfigs :
         /\ target_file = cfg.target
         /\ valid_file = cfg.valid
    /\ store \in InitialStores
    /\ locals = NoFrame
    /\ outcome = "none"
    /\ win_report = <<>>
    /\ last_input = <<>>
    /\ message = ""
    /\ games = 0
    /\ exit_status = <<>>
    /\ shown = <<>>
    /\ io_errors = {}

Next ==
    \/ Launch
    \/ EnterName
    \/ SubmitGuess
    \/ PromptInterrupted
    \/ ReplayYes
    \/ ReplayNo
    \/ ReplayOther

Spec == Init /\ [][Next]_vars

(***************************************************************************)
(* The game with word lists that go missing, or lose their words, while    *)
(* the replay prompt waits.                                                *)
(***************************************************************************)
\* what the word-list files may turn into between two sessions
BrokenFileConfigs ==
    { [target |-> Missing, valid |-> File(GoodValidLines)],
      [target |-> File(GoodTargetLines), valid |-> Missing],
      [target |-> Missing, valid |-> Missing],
      [target |-> File(NoWordLines), valid |-> File(GoodValidLines)],
      [target |-> File(GoodTargetLines), valid |-> File(NoWordLines)] }

\* the files are changed from outside while prompt_play_again waits
FilesChange ==
    /\ pc = "replay"
    /\ validate_game_files(target_file, valid_file)
    /\ load_words(target_file) # <<>>
    /\ load_words(valid_file) # <<>>
    /\ \E cfg \in BrokenFileConfigs :
          /\ target_file' = cfg.target
          /\ valid_file' = cfg.valid
    /\ UNCHANGED <<args, ret, pc, store, locals, outcome, win_report, last_input,
                   message, games, exit_status, shown, io_errors>>

NextFiles == Next \/ FilesChange

SpecFiles == Init /\ [][NextFiles]_vars

(***************************************************************************)
(* The game beside a score file that cannot be read or written, or that    *)
(* holds rows the game did not write whole.                                *)
(***************************************************************************)
\* score files with a row cut short after its score, after a record or
\* alone, and one with the columns in another order
FaultyStores ==
    { [exists |-> FALSE, rows |-> <<>>],
      [exists |-> TRUE,
       rows |-> <<fieldnames, EntryRow(N_Bob, 1200, D_today)>>],
      [exists |-> TRUE,
       rows |-> <<fieldnames, << <<"3","0","0","0">> >> >>],
      [exists |-> TRUE,
       rows |-> <<fieldnames, EntryRow(N_Bob, 1200, D_today),
                  << <<"3","6">> >> >>],
      [exists |-> TRUE,
       rows |-> << <<F_name, F_score, F_date>>,
                   <<N_Bob, IntToStr(1200), D_today>>, <<N_Bob>> >>] }

InitFaults ==
    /\ args = <<>>
    /\ ret = <<>>
    /\ pc = "start"
    /\ target_file = File(GoodTargetLines)
    /\ valid_file = File(GoodValidLines)
    /\ store \in FaultyStores
    /\ locals = NoFrame
    /\ outcome = "none"
    /\ win_report = <<>>
    /\ last_input = <<>>
    /\ message = ""
    /\ games = 0
    /\ exit_status = <<>>
    /\ shown = <<>>
    /\ io_errors \in SUBSET {"read", "write"}

SpecFaults == InitFaults /\ [][Next]_vars

(***************************************************************************)
(* calculate_score checked as a pure function, over every elapsed time     *)
(* from zero to ScoreSlack seconds past the time limit, beside the game.   *)
(***************************************************************************)
\* the seconds past the time limit the pure check goes to
ScoreSlack == 100

InitScore ==
    /\ \E start_time \in {0} \cup StartTimes :
       \E elapsed \in 0..(TicksPerSecond * (MAX_ALLOWED_TIME + ScoreSlack)) :
          args = <<start_time, start_time + elapsed>>
    /\ ret = Pending
    /\ NoGame

CallScore ==
    /\ pc = "call"
    /\ ret = Pending
    /\ ret' = <<calculate_score(args[1], args[2])>>
    /\ UNCHANGED <<args, gameVars>>

InitWithScore == Init \/ InitScore

NextWithScore == Next \/ CallScore

SpecScore == InitWithScore /\ [][NextWithScore]_vars

(***************************************************************************)
(* The game beside the evaluator checked on its own: the feedback of every *)
(* pair of words, and the win test of every session.                       *)
(***************************************************************************)
InitWithEval == Init \/ InitEval

NextWithEval == Next \/ CallEvaluate

SpecWin == InitWithEval /\ [][NextWithEval]_vars

(***************************************************************************)
(* The score board: scores recorded one after another by save_high_score   *)
(* into a file found absent, empty or with records, and the ranking        *)
(* load_high_scores returns after each.  args keeps the file as it was     *)
(* found and the entries recorded since.                                   *)
(***************************************************************************)
\* the most calls of save_high_score in one run of the board
MaxRecords == 11

\* the scores recorded: the least and the greatest valid score
BoardScores == {0, BASE_SCORE}

\* no session of the game is running and no operation on the file fails
NoSession ==
    /\ target_file = Missing
    /\ valid_file = Missing
    /\ locals = NoFrame
    /\ outcome = "none"
    /\ win_report = <<>>
    /\ last_input = <<>>
    /\ message = ""
    /\ games = 0
    /\ exit_status = <<>>
    /\ shown = <<>>
    /\ io_errors = {}

sessionVars == <<target_file, valid_file, locals, outcome, win_report,
                 last_input, message, games, exit_status, shown, io_errors>>

InitBoard ==
    /\ pc = "board"
    /\ store \in InitialStores
    /\ args = [initial |-> store, recorded |-> <<>>]
    /\ ret = <<load_high_scores(store)>>
    /\ NoSession

\* save_high_score(player_name, score), then load_high_scores()
Record ==
    /\ pc = "board"
    /\ Len(args.recorded) < MaxRecords
    /\ \E player_name \in {N_Bob}, score \in BoardScores, current_date \in Dates :
         /\ store' = save_high_score(store, player_name, score, current_date)
         /\ args' = [args EXCEPT !.recorded =
                        Append(@, [score |-> score, name |-> player_name,
                                   date |-> current_date])]
    /\ ret' = <<load_high_scores(store')>>
    /\ UNCHANGED <<pc, sessionVars>>

NextBoard == Record

SpecBoard == InitBoard /\ [][NextBoard]_vars

(***************************************************************************)
(* load_high_scores checked as a pure function of the file: over files     *)
(* with the header and up to MaxRows records of two scores (ties), over    *)
(* files of up to MaxMixedRows rows that may be malformed, under the       *)
(* header the code writes, another order of the columns, or no header,     *)
(* and over the absent and the zero-byte file.                             *)
(***************************************************************************)
\* the most records of a file of tied scores
MaxRows == 11

\* the most rows after the header of a file with malformed rows
MaxMixedRows == 3

TieScores == {5, 7}

\* the name in the i-th record of a file of tied scores
RowName(i) == <<"n">> \o NatToStr(i)

\* the files with the header and up to maxRows records of tied scores
TieStores(maxRows) ==
    UNION { { [exists |-> TRUE,
               rows |-> <<fieldnames>> \o
                          [i \in 1..n |-> EntryRow(RowName(i), f[i], D_today)]]
              : f \in [1..n -> TieScores] }
            : n \in 0..maxRows }

N_Ann == <<"A","n","n">>

\* rows as another program, an editor or a broken write may leave them
MixedRows ==
    { EntryRow(N_Ann, 100, D_today),
      EntryRow(N_Bob, 3000, D_today),
      <<N_Ann, IntToStr(100), D_today>>,
      << <<"a","b","c">>, N_Bob, D_today >>,
      << <<" ","4","2","\n">>, N_Ann, D_today >>,
      << <<"4","2">> >>,
      <<N_Bob>>,
      <<>> }

Headers == { <<fieldnames>>, << <<F_name, F_score, F_date>> >>, <<>> }

\* the files with one of the headers and up to maxRows of the mixed rows
MixedStores(maxRows) ==
    UNION { { [exists |-> TRUE, rows |-> header \o body]
              : header \in Headers, body \in [1..n -> MixedRows] }
            : n \in 0..maxRows }

\* A load that opens the file without looking whether it exists.
LoadMessageUnguarded(st, io) ==
    IF ~st.exists \/ LoadFails(st, io) THEN "error_loading" ELSE ""

\* what load_high_scores prints when its outer try fails
LoadMessage(st, io) ==
    IF st.exists /\ LoadFails(st, io) THEN "error_loading" ELSE ""

InitLoad ==
    /\ pc = "load"
    /\ store \in {[exists |-> FALSE, rows |-> <<>>]}
                   \cup TieStores(MaxRows) \cup MixedStores(MaxMixedRows)
    /\ args = <<>>
    /\ ret = Pending
    /\ NoSession

CallLoad ==
    /\ pc = "load"
    /\ ret = Pending
    /\ ret' = <<load_high_scores_io(store, io_errors)>>
    /\ message' = LoadMessage(store, io_errors)
    /\ UNCHANGED <<args, pc, store, target_file, valid_file, locals, outcome,
                   win_report, last_input, games, exit_status, shown, io_errors>>

NextLoad == CallLoad

SpecLoad == InitLoad /\ [][NextLoad]_vars

\* the game, and beside it load_high_scores as a pure function
InitWithLoad == Init \/ InitLoad

NextWithLoad == Next \/ CallLoad

SpecStore == InitWithLoad /\ [][NextWithLoad]_vars

(***************************************************************************)
(* save_high_score cut short: the process is killed, or the device fails,  *)
(* when only the first bytes of what the call writes have reached the      *)
(* file.  The text written is the header line (for a new file) and the     *)
(* line of the entry, encoded as UTF-8; the names here hold no comma,      *)
(* quote or line break, so csv.writer writes every cell as it is.          *)
(***************************************************************************)
\* the letter e with an acute accent, two bytes in UTF-8
EAcute == "<e-acute>"

N_Jose == <<"J","o","s",EAcute>>

\* the cells of a row as one line of text, without the line terminator
RECURSIVE JoinCells(_)
JoinCells(row) ==
    IF row = <<>> THEN <<>>
    ELSE IF Len(row) = 1 THEN row[1]
    ELSE row[1] \o <<",">> \o JoinCells(Tail(row))

\* csv.writer.writerow: the line of a row
LineOf(row) == JoinCells(row) \o <<"\r", "\n">>

\* the bytes of a character
BytesOf(c) == IF c = EAcute THEN <<BrokenByte, "<A9>">> ELSE <<c>>

\* str.encode('utf-8')
RECURSIVE Encode(_)
Encode(text) ==
    IF text = <<>> THEN <<>> ELSE BytesOf(Head(text)) \o Encode(Tail(text))

\* the characters of a sequence of bytes; a first byte without its second
\* byte stays as it is, and the file does not decode
RECURSIVE Decode(_)
Decode(bytes) ==
    IF bytes = <<>> THEN <<>>
    ELSE IF Len(bytes) >= 2 /\ bytes[1] = BrokenByte /\ bytes[2] = "<A9>"
    THEN <<EAcute>> \o Decode(SubSeq(bytes, 3, Len(bytes)))
    ELSE <<bytes[1]>> \o Decode(Tail(bytes))

\* csv.reader: the rows of a text, row the cells read so far of the line at
\* hand and cell the characters read so far of its last cell; blank lines
\* give no row
RECURSIVE ReadRows(_, _, _)
ReadRows(text, row, cell) ==
    LET ended == IF row = <<>> /\ cell = <<>> THEN <<>> ELSE <<Append(row, cell)>>
    IN  IF text = <<>> THEN ended
        ELSE IF Head(text) = "," THEN ReadRows(Tail(text), Append(row, cell), <<>>)
        ELSE IF Head(text) \in {"\r", "\n"}
        THEN ended \o ReadRows(Tail(text), <<>>, <<>>)
        ELSE ReadRows(Tail(text), row, Append(cell, Head(text)))

\* the bytes a call of save_high_score writes
BytesWritten(st, player_name, score, current_date) ==
    Encode((IF ~st.exists THEN LineOf(fieldnames) ELSE <<>>)
              \o LineOf(EntryRow(player_name, score, current_date)))

\* the file when only the first k bytes of the call have reached it
save_high_score_cut(st, player_name, score, current_date, k) ==
    LET bytes == BytesWritten(st, player_name, score, current_date)
    IN  [exists |-> TRUE,
         rows |-> st.rows \o ReadRows(Decode(SubSeq(bytes, 1, k)), <<>>, <<>>)]

\* the entries the file holds before the interrupted call
MaxPriorEntries == 2

PriorStores ==
    { [exists |-> FALSE, rows |-> <<>>] } \cup
    { [exists |-> TRUE,
       rows |-> <<fieldnames>> \o
                   [i \in 1..n |-> EntryRow(IF i = 1 THEN N_Ann ELSE N_Jose,
                                            100 * i, D_today)]]
      : n \in 0..MaxPriorEntries }

InitCrash ==
    /\ pc = "save"
    /\ store \in PriorStores
    /\ args = <<>>
    /\ ret = Pending
    /\ NoSession

\* save_high_score is called and the process stops before the file is
\* opened (the file is as it was), or with k bytes written
SaveInterrupted ==
    /\ pc = "save"
    /\ \E player_name \in {N_Bob, N_Jose}, score \in BoardScores,
          current_date \in Dates :
          LET n == Len(BytesWritten(store, player_name, score, current_date))
          IN  \/ store' = store
              \/ \E k \in 0..n :
                    store' = save_high_score_cut(store, player_name, score,
                                                 current_date, k)
    /\ args' = <<store>>
    /\ pc' = "stopped"
    /\ UNCHANGED <<ret, sessionVars>>

\* load_high_scores in a process started later
LoadAfterStop ==
    /\ pc = "stopped"
    /\ ret' = <<load_high_scores(store)>>
    /\ pc' = "loaded"
    /\ UNCHANGED <<args, store, sessionVars>>

NextCrash == SaveInterrupted \/ LoadAfterStop

SpecCrash == InitCrash /\ [][NextCrash]_vars

(***************************************************************************)
(* Claims about evaluate_guess (SpecEval).                                 *)
(***************************************************************************)
\* the positions of word w that hold letter L
Occ(w, L) == {i \in Positions : w[i] = L}
\* the positions of the guess holding L that the feedback marks Hit or Present
Claimed(g, fb, L) == {i \in Occ(g, L) : fb[i] \in {Hit, Present}}
LettersOf(w) == {w[i] : i \in Positions}

\* C1: position i is marked Hit if and only if guess[i] = secret[i], so the
\* number of Hit marks is the number of positions where the words agree.
C1_HitIffSamePosition ==
    Returned =>
        LET g == args[1]
            s == args[2]
            fb == Result
        IN  /\ DOMAIN fb = Positions
            /\ \A i \in Positions : (fb[i] = Hit) <=> (g[i] = s[i])
            /\ Cardinality({i \in Positions : fb[i] = Hit})
                 = Cardinality({i \in Positions : g[i] = s[i]})

\* a pair with an exact match, and a non-matching guess letter that occurs
\* again in the secret at an unmatched position, has been evaluated
C1_Witness ==
    /\ Returned
    /\ \E i, j, k \in Positions :
          /\ args[1][i] = args[2][i]
          /\ args[1][j] # args[2][j]
          /\ args[1][k] # args[2][k]
          /\ args[1][i] = args[2][k]
          /\ Result[i] = Hit

\* C2: for every letter L, the guess positions holding L that are marked Hit
\* or Present are at most as many as the occurrences of L in the secret.
C2_NoOverclaim ==
    Returned =>
        \A L \in LettersOf(args[1]) :
            Cardinality(Claimed(args[1], Result, L))
                <= Cardinality(Occ(args[2], L))

\* a letter that occurs more often in the guess than in the secret (and
\* occurs in the secret) has been evaluated
C2_Witness ==
    /\ Returned
    /\ \E L \in LettersOf(args[1]) :
          /\ Cardinality(Occ(args[1], L)) > Cardinality(Occ(args[2], L))
          /\ Cardinality(Occ(args[2], L)) > 0
          /\ Cardinality(Claimed(args[1], Result, L)) = Cardinality(Occ(args[2], L))

\* C3: for a letter L that occurs more often in the guess than in the secret,
\* exactly count(L in secret) occurrences are marked Hit or Present and the
\* others Miss, and no occurrence of L marked Miss lies to the left of one
\* marked Present.  For every position, the mark is the one the two-pass
\* rule gives: Hit on an exact match; otherwise Present exactly when the
\* unmatched occurrences of the letter to its left in the guess are fewer
\* than the unmatched occurrences of the letter in the secret.
C3_ExcessIsMissLeftmostPresent ==
    Returned =>
        LET g == args[1]
            s == args[2]
            fb == Result
            unmatchedLeft(i) == {k \in Occ(g, g[i]) : k < i /\ g[k] # s[k]}
            unmatchedSecret(L) == {j \in Occ(s, L) : g[j] # s[j]}
        IN  /\ \A L \in LettersOf(g) :
                  Cardinality(Occ(g, L)) > Cardinality(Occ(s, L)) =>
                      /\ Cardinality(Claimed(g, fb, L)) = Cardinality(Occ(s, L))
                      /\ \A i \in Occ(g, L) \ Claimed(g, fb, L) : fb[i] = Miss
                      /\ \A i, j \in Occ(g, L) :
                            (i < j /\ fb[j] = Present) => fb[i] # Miss
            /\ \A i \in Positions :
                  fb[i] = IF g[i] = s[i] THEN Hit
                          ELSE IF Cardinality(unmatchedLeft(i))
                                    < Cardinality(unmatchedSecret(g[i]))
                               THEN Present
                               ELSE Miss

\* a letter with a Present occurrence and, to its right, a Miss occurrence
C3_Witness ==
    /\ Returned
    /\ \E i, j \in Positions :
          /\ i < j
          /\ args[1][i] = args[1][j]
          /\ Result[i] = Present
          /\ Result[j] = Miss
          /\ Cardinality(Occ(args[1], args[1][i]))
                > Cardinality(Occ(args[2], args[1][i]))

\* C4: the four known fixtures (guess, secret).
C4_Fixtures ==
    Returned =>
        /\ args = <<W_hello, W_world>> => Result = <<Miss, Miss, Miss, Hit, Present>>
        /\ args = <<W_cheer, W_chair>> => Result = <<Hit, Hit, Miss, Miss, Hit>>
        /\ args = <<W_bells, W_label>> =>
                Result = <<Present, Present, Present, Present, Miss>>
        /\ args = <<W_spear, W_pears>> =>
                Result = <<Present, Present, Present, Present, Present>>

\* the fixture (hello, world) has been evaluated
C4_Witness ==
    /\ Returned
    /\ args = <<W_hello, W_world>>
    /\ Result[4] = Hit

(***************************************************************************)
(* Claims about the session (Spec).                                        *)
(***************************************************************************)
LowerLetters == {LowerCase[i] : i \in 1..Len(LowerCase)}

\* the word a typed line stands for
Typed(raw) == StrippedLower[raw]

\* a line is a valid guess: exactly 5 alphabetic characters, in the vocabulary
ValidGuessLine(raw, vocabulary) ==
    /\ raw \notin Interrupts
    /\ Len(Typed(raw)) = SECRET_WORD_LENGTH
    /\ \A i \in 1..Len(Typed(raw)) : Typed(raw)[i] \in LowerLetters
    /\ Typed(raw) \in vocabulary

\* a step that reads a line at the guess prompt
GuessRead == pc = "guess" /\ last_input' \notin Interrupts

ValidGuessStep == pc = "guess" /\ ValidGuessLine(last_input', locals.valid_guess_words)

RejectedGuessStep == GuessRead /\ ~ValidGuessLine(last_input', locals.valid_guess_words)

GuessesOf(score_history) == {score_history[i][1] : i \in 1..Len(score_history)}

\* C5: a valid guess at the guess prompt adds one to the attempts used (takes
\* one from the attempts remaining), appends the one record
\* (guess, evaluate_guess(guess, secret)) at the end of the history, and leaves
\* the secret and the earlier records as they were.
C5_ValidGuessConsumesOneAttempt ==
    [][ValidGuessStep =>
          /\ locals'.number_of_attempts = locals.number_of_attempts + 1
          /\ MAX_ATTEMPTS - locals'.number_of_attempts
                = (MAX_ATTEMPTS - locals.number_of_attempts) - 1
          /\ Len(locals'.score_history) = Len(locals.score_history) + 1
          /\ locals'.score_history[Len(locals'.score_history)]
                = <<Typed(last_input'),
                    evaluate_guess(Typed(last_input'), locals.chosen_secret_word)>>
          /\ SubSeq(locals'.score_history, 1, Len(locals.score_history))
                = locals.score_history
          /\ locals'.chosen_secret_word = locals.chosen_secret_word
          /\ locals'.valid_guess_words = locals.valid_guess_words
      ]_vars

\* the prompt after two valid guesses that differ
C5_Witness ==
    /\ pc = "guess"
    /\ Len(locals.score_history) >= 2
    /\ locals.score_history[1][1] # locals.score_history[2][1]
    /\ locals.number_of_attempts = Len(locals.score_history)

\* C6: a line at the guess prompt that is not a valid guess (empty, not 5
\* long, not alphabetic, not in the vocabulary, or help) leaves the attempts
\* used, the history, the secret and the outcome as they were, and the
\* session at the guess prompt.
C6_RejectedInputChangesNothing ==
    [][RejectedGuessStep =>
          /\ locals' = locals
          /\ outcome' = outcome
          /\ store' = store
          /\ win_report' = win_report
          /\ pc' = "guess"
      ]_vars

\* a word that is not in the vocabulary has been rejected in the middle of a
\* session
C6_Witness ==
    /\ pc = "guess"
    /\ message = "word_not_valid"
    /\ Typed(last_input) = W_cheer
    /\ locals.number_of_attempts >= 1

\* C7: a valid guess equal to the secret ends the session in Won, with the
\* attempts used equal to the ordinal of that guess (1..6); a wrong valid
\* guess that is the 6th ends it in Lost with 6 attempts used; a wrong valid
\* guess with attempts left returns to the guess prompt.  A session becomes
\* Won or Lost by no other step.
C7_WonLostExactly ==
    [][/\ ValidGuessStep =>
            LET guess == Typed(last_input')
                ordinal == Len(locals.score_history) + 1
            IN  /\ guess = locals.chosen_secret_word =>
                      /\ outcome' = "Won"
                      /\ pc' = "replay"
                      /\ locals'.number_of_attempts = ordinal
                      /\ ordinal \in 1..MAX_ATTEMPTS
                /\ (guess # locals.chosen_secret_word /\ ordinal = MAX_ATTEMPTS) =>
                      /\ outcome' = "Lost"
                      /\ pc' = "replay"
                      /\ locals'.number_of_attempts = MAX_ATTEMPTS
                /\ (guess # locals.chosen_secret_word /\ ordinal < MAX_ATTEMPTS) =>
                      /\ outcome' = "none"
                      /\ pc' = "guess"
       /\ (outcome' = "Won" /\ outcome # "Won") =>
            /\ ValidGuessStep
            /\ Typed(last_input') = locals.chosen_secret_word
       /\ (outcome' = "Lost" /\ outcome # "Lost") =>
            /\ ValidGuessStep
            /\ Len(locals'.score_history) = MAX_ATTEMPTS
            /\ locals'.chosen_secret_word \notin GuessesOf(locals'.score_history)
      ]_vars

\* the secret was guessed on the 6th valid guess
C7_Witness ==
    /\ outcome = "Won"
    /\ pc = "replay"
    /\ locals.number_of_attempts = MAX_ATTEMPTS
    /\ locals.score_history[MAX_ATTEMPTS][1] = locals.chosen_secret_word

\* the attempts used are in 0..6 and equal the length of the history
C8_Attempts ==
    Bound("number_of_attempts") =>
        /\ locals.number_of_attempts \in 0..MAX_ATTEMPTS
        /\ locals.number_of_attempts = Len(locals.score_history)

\* a finished session is not at the guess prompt
C8_Terminal ==
    /\ outcome \in {"Won", "Lost"} => pc \in {"replay", "exit"}
    /\ pc = "guess" => outcome = "none" /\ locals.number_of_attempts < MAX_ATTEMPTS

\* C8: the attempts used are in 0..6 and equal the length of the history; a
\* session comes to its first guess prompt with 0 attempts used (6 left); a
\* session that is Won or Lost is at the replay prompt or over, and no step
\* of it reads, evaluates or appends a guess any more, even with attempts
\* left after a win.
C8_AttemptsAndTerminal ==
    /\ []C8_Attempts
    /\ []C8_Terminal
    /\ [][/\ (pc = "name" /\ pc' = "guess") =>
                /\ locals'.number_of_attempts = 0
                /\ MAX_ATTEMPTS - locals'.number_of_attempts = 6
                /\ locals'.score_history = <<>>
          /\ (outcome \in {"Won", "Lost"} /\ games' = games) =>
                /\ pc' # "guess"
                /\ outcome' = outcome
                /\ locals' \in {locals, NoFrame}
         ]_vars

\* the replay prompt after a win on the second guess, attempts remaining
C8_Witness ==
    /\ outcome = "Won"
    /\ pc = "replay"
    /\ locals.number_of_attempts = 2
    /\ message = "yes_no_prompt"

\* the rows of the score file that are not the header row
Entries(st) == SelectSeq(st.rows, LAMBDA row : row # fieldnames)

\* C9: the score file changes only in the step that ends a session in Won
\* with elapsed seconds <= 3600, and then gains exactly one entry, at the
\* end; a Lost session, and a win with elapsed seconds > 3600 (still Won),
\* leave it unchanged.
C9_StoreGainsOnlyOnTimelyWin ==
    [][/\ store' # store =>
            /\ pc = "guess"
            /\ outcome' = "Won"
            /\ win_report'[1].total_seconds <= MAX_ALLOWED_TIME
       /\ (pc = "guess" /\ outcome' = "Won") =>
            IF win_report'[1].total_seconds <= MAX_ALLOWED_TIME
            THEN /\ Len(Entries(store')) = Len(Entries(store)) + 1
                 /\ SubSeq(store'.rows, 1, Len(store.rows)) = store.rows
                 /\ store'.rows[Len(store'.rows)][2] = locals.player_name
            ELSE /\ store' = store
                 /\ pc' = "replay"
       /\ outcome' = "Lost" => store' = store
      ]_vars

\* a win after 3601 seconds, reported as Won, with the score file still absent
C9_Witness ==
    /\ outcome = "Won"
    /\ pc = "replay"
    /\ win_report[1].total_seconds = MAX_ALLOWED_TIME + 1
    /\ ~store.exists

(***************************************************************************)
(* The game with a player who, asked for a name or a guess, does not go on *)
(* typing lines that are rejected for ever (SpecLive).                     *)
(***************************************************************************)
\* the player types a valid guess at the guess prompt
ValidGuessSubmitted ==
    /\ pc = "guess"
    /\ last_input' \in GuessInputs
    /\ ValidGuessLine(last_input', locals.valid_guess_words)

\* the player types an acceptable name at the name prompt
ValidNameEntered ==
    /\ pc = "name"
    /\ last_input' \in NameInputs
    /\ CheckName(Stripped[last_input']) = "ok"

\* The player's part is the line typed: last_input.  A prompt that waits, or
\* that has rejected a line, is given an acceptable line in the end.
SpecLive ==
    /\ Init
    /\ [][Next]_vars
    /\ WF_last_input(ValidGuessSubmitted)
    /\ WF_last_input(ValidNameEntered)

\* the session has ended in Won or Lost, or the player has left it by an
\* interrupt or end-of-input at its prompt
SessionOver ==
    \/ outcome \in {"Won", "Lost"}
    \/ pc = "exit" /\ last_input \in Interrupts

\* C23: with a player who eventually submits a valid guess whenever prompted
\* (and an acceptable name), every session that has started comes to Won or
\* Lost, unless the player leaves it by an interrupt; it does so after at
\* most 6 valid guesses: each valid guess uses one attempt, the guess prompt
\* is shown only with fewer than 6 used, and the 6th valid guess ends the
\* session.  A session stays unfinished for ever only by lines that are
\* rejected at one prompt without end.
C23_SessionTerminates ==
    /\ (pc \in {"name", "guess"}) ~> SessionOver
    /\ [](pc = "guess" => locals.number_of_attempts < MAX_ATTEMPTS)
    /\ [][ValidGuessStep =>
            /\ locals'.number_of_attempts = locals.number_of_attempts + 1
            /\ locals.number_of_attempts = MAX_ATTEMPTS - 1 =>
                  outcome' \in {"Won", "Lost"}
            /\ outcome' \in {"Won", "Lost"} =>
                  locals'.number_of_attempts \in 1..MAX_ATTEMPTS
         ]_vars
    /\ [][(pc \in {"name", "guess"} /\ pc' = pc /\ outcome' = outcome
             /\ locals' = locals) =>
            \/ pc = "guess"
               /\ ~ValidGuessLine(last_input', locals.valid_guess_words)
            \/ pc = "name" /\ CheckName(Stripped[last_input']) # "ok"
         ]_vars

\* the second session lost by six valid guesses, a rejected line before the
\* last of them
C23_Witness ==
    /\ outcome = "Lost"
    /\ pc = "replay"
    /\ games = 2
    /\ locals.number_of_attempts = MAX_ATTEMPTS
    /\ Len(locals.score_history) = MAX_ATTEMPTS

(***************************************************************************)
(* Claims about the win test (SpecWin).                                    *)
(***************************************************************************)
\* a feedback that is Hit at every position
AllHit(feedback) == \A p \in Positions : feedback[p] = Hit

\* C22: evaluate_guess(w, w) is all Hit for every word w, and for every pair
\* of words the feedback is all Hit only when the guess is the secret; so in
\* a session a valid guess ends the session in Won exactly when the feedback
\* computed and shown for it is all Hit.
C22_AllHitIffEqual ==
    /\ [](pc = "call" /\ Returned =>
            /\ args[1] = args[2] => AllHit(Result)
            /\ AllHit(Result) => args[1] = args[2])
    /\ [][ValidGuessStep =>
            /\ locals'.guess_score
                  = evaluate_guess(Typed(last_input'), locals.chosen_secret_word)
            /\ locals'.player_guess = Typed(last_input')
            /\ outcome' = "Won" <=> AllHit(locals'.guess_score)
            /\ outcome' = "Won" <=> Typed(last_input') = locals.chosen_secret_word
         ]_vars
    /\ []((outcome = "Won" /\ pc = "replay") =>
            /\ AllHit(locals.guess_score)
            /\ locals.player_guess = locals.chosen_secret_word)

\* a word with repeated letters evaluated against itself
C22_Witness ==
    /\ pc = "call"
    /\ Returned
    /\ args = << <<"a","b","a","c","b">>, <<"a","b","a","c","b">> >>
    /\ AllHit(Result)

(***************************************************************************)
(* Claims about calculate_score (SpecScore).                               *)
(***************************************************************************)
\* what the claim states of a report for an elapsed time of d ticks
ScoreAsClaimed(report, d) ==
    LET t == report.total_seconds
    IN  /\ t >= 0
        /\ t * TicksPerSecond <= d
        /\ d < (t + 1) * TicksPerSecond
        /\ report.final_score = (IF 3600 - t >= 0 THEN 3600 - t ELSE 0)
        /\ report.score_valid = (t <= 3600)
        /\ report.final_score >= 0
        /\ (t >= 3600 => report.final_score = 0)

DigitValue(c) == (CHOOSE i \in 1..10 : Digits[i] = c) - 1

RECURSIVE DecimalValue(_)
DecimalValue(cell) ==
    IF cell = <<>> THEN 0
    ELSE 10 * DecimalValue(SubSeq(cell, 1, Len(cell) - 1))
            + DigitValue(cell[Len(cell)])

IsDecimal(cell) ==
    /\ cell # <<>>
    /\ \A i \in 1..Len(cell) : \E k \in 1..10 : Digits[k] = cell[i]

\* C10: for every whole number t >= 0 of elapsed seconds the score is
\* max(0, 3600 - t) and it is valid exactly when t <= 3600; it is never
\* negative and 0 from 3600 seconds on; every score in the score file is in
\* 0..3600, and a win at exactly 3600 seconds is saved, with score 0.
C10_ScoreFormula ==
    /\ (pc = "call" /\ Returned) => ScoreAsClaimed(Result, args[2] - args[1])
    /\ win_report # <<>> =>
          /\ \E d \in ElapsedTicks : ScoreAsClaimed(win_report[1], d)
          /\ (outcome = "Won" /\ win_report[1].total_seconds = 3600) =>
                /\ win_report[1].score_valid
                /\ store.exists
                /\ store.rows[Len(store.rows)][1] = <<"0">>
    /\ \A i \in 1..Len(Entries(store)) :
          /\ IsDecimal(Entries(store)[i][1])
          /\ DecimalValue(Entries(store)[i][1]) \in 0..3600

\* a win at exactly 3600 seconds, saved with score 0
C10_Witness ==
    /\ outcome = "Won"
    /\ pc = "replay"
    /\ win_report[1].total_seconds = 3600
    /\ win_report[1].final_score = 0
    /\ store.rows[Len(store.rows)][1] = <<"0">>

\* input() raises KeyboardInterrupt or EOFError at one of the three prompts
InterruptStep ==
    pc \in {"name", "guess", "replay"} /\ last_input' \in Interrupts

\* C16: an interrupt or end-of-input at the name, guess or replay prompt
\* prints the farewell and ends the process with exit status 0; the step
\* evaluates no guess, starts no session, shows no ranking and leaves the
\* score store as it was; after the exit nothing happens any more (no
\* prompt, no guess, no session).
C16_InterruptEndsCleanly ==
    /\ [][InterruptStep =>
            /\ message' = "interrupted"
            /\ pc' = "exit"
            /\ exit_status' = <<0>>
            /\ store' = store
            /\ games' = games
            /\ outcome' = outcome
            /\ win_report' = win_report
            /\ shown' = <<>>
            /\ locals' \in {locals, NoFrame}
         ]_vars
    /\ [][pc # "exit"]_vars
    /\ [](pc = "exit" => exit_status = <<0>>)

\* end-of-input at the replay prompt of the second session, after a loss
C16_Witness ==
    /\ pc = "exit"
    /\ message = "interrupted"
    /\ last_input = EOFError
    /\ outcome = "Lost"
    /\ games = 2
    /\ exit_status = <<0>>

\* C18: in every session the secret word is in the valid-guess vocabulary,
\* so the guess equal to the secret passes the validation of the guess
\* prompt.
C18_SecretInVocabulary ==
    Bound("chosen_secret_word") =>
        /\ locals.chosen_secret_word \in locals.valid_guess_words
        /\ CheckGuess(locals.chosen_secret_word, locals.valid_guess_words) = "ok"

\* a step that reads a line at the replay prompt
ReplayRead == pc = "replay" /\ last_input' \notin Interrupts

\* the answers the replay prompt takes as a yes and as a no, as words
SaysYes(raw) ==
    Typed(raw) \in {<<"y","e","s">>, <<"y">>, <<"s","i">>, <<"s">>}

SaysNo(raw) == Typed(raw) \in {<<"n","o">>, <<"n">>}

\* a session is in progress: play_one_game is at one of its own prompts
SessionInProgress == pc \in {"name", "guess"}

\* a printed table has a line for every entry of a ranking, in its order
ShowsRanking(table, ranking) ==
    /\ Len(table) = Len(ranking)
    /\ \A i \in 1..Len(table) :
          /\ table[i].rank = i
          /\ table[i].score = ranking[i].score
          /\ table[i].date = ranking[i].date

\* the local variables of a session that has come to its name prompt
FreshNames ==
    {"function", "candidate_secret_words", "valid_guess_words",
     "chosen_secret_word", "score_history"}

\* C21: a session that ends in Won or Lost comes to the replay prompt.  There
\* an answer in {yes, y, si, s} starts a new session: a secret drawn from the
\* target words as they are read then, an empty history, no attempt used
\* when it comes to its first guess prompt, nothing of the session before
\* bound, the ranking shown from the score store as it is; an answer in
\* {no, n} ends the process; any other answer asks again and changes
\* nothing.  A session starts only when none is in progress, and the score
\* store passes unchanged from one session to the next.
C21_ReplayPrompt ==
    /\ [][/\ (outcome' \in {"Won", "Lost"} /\ outcome = "none") =>
                /\ pc' = "replay"
                /\ exit_status' = <<>>
          /\ (ReplayRead /\ SaysYes(last_input')) =>
                /\ games' = games + 1
                /\ pc' = "name"
                /\ outcome' = "none"
                /\ win_report' = <<>>
                /\ DOMAIN locals' = FreshNames
                /\ locals'.score_history = <<>>
                /\ locals'.chosen_secret_word \in SetOf(load_words(target_file))
                /\ locals'.valid_guess_words = SetOf(load_words(valid_file))
                /\ shown' # <<>>
                /\ ShowsRanking(shown'[1], load_high_scores(store))
                /\ store' = store
          /\ (ReplayRead /\ SaysNo(last_input')) =>
                /\ pc' = "exit"
                /\ exit_status' = <<0>>
                /\ message' = "goodbye"
                /\ games' = games
                /\ store' = store
          /\ (ReplayRead /\ ~SaysYes(last_input') /\ ~SaysNo(last_input')) =>
                /\ pc' = "replay"
                /\ message' = "yes_no_prompt"
                /\ UNCHANGED <<games, locals, outcome, win_report, store,
                               exit_status, target_file, valid_file>>
          /\ games' = games + 1 =>
                /\ ~SessionInProgress
                /\ pc = "replay" => last_input' \notin Interrupts /\ SaysYes(last_input')
          /\ (games >= 1 /\ pc = "name" /\ pc' = "guess") =>
                /\ locals'.number_of_attempts = 0
                /\ locals'.score_history = <<>>
         ]_vars
    /\ [](pc = "replay" => outcome \in {"Won", "Lost"})
    /\ [](SessionInProgress => outcome = "none" /\ win_report = <<>>)

\* the name prompt of the second session, reached by the answer " Y " after
\* a first session whose win was saved behind the entry the store began with
C21_Witness ==
    /\ pc = "name"
    /\ games = 2
    /\ last_input = <<" ","Y"," ">>
    /\ DOMAIN locals = FreshNames
    /\ store.exists
    /\ Len(store.rows) = 3
    /\ Len(shown[1]) = 2

(***************************************************************************)
(* Claims about the word lists (SpecFiles).                                *)
(***************************************************************************)
\* a word-list file holds a line that is a word: five letters, whitespace
\* around them and their case apart
HasWord(file) ==
    \E i \in 1..Len(file.lines) :
        LET w == Lower(Strip(file.lines[i]))
        IN  Len(w) = 5 /\ \A k \in 1..5 : w[k] \in LowerLetters

\* a required word list is missing, or one of the lists yields no word
WordListsUnusable ==
    \/ ~target_file.exists
    \/ ~valid_file.exists
    \/ ~HasWord(target_file)
    \/ ~HasWord(valid_file)

\* play_one_game is called: at the start of the process or after a yes
GameCalled == games' = games + 1

\* C19: when play_one_game is called with a word list missing or yielding
\* no word, at the start of the process or for a replayed game, no session
\* starts: no secret is drawn, no ranking and no prompt is shown, the score
\* store is as it was, and the process ends with exit status 0; nothing
\* happens after the exit.  With usable lists the call comes to the name
\* prompt.
C19_NoSessionWithoutWordLists ==
    /\ [][GameCalled =>
            IF WordListsUnusable
            THEN /\ pc' = "exit"
                 /\ exit_status' = <<0>>
                 /\ message' \in {"missing_files", "could_not_load"}
                 /\ locals' = NoFrame
                 /\ outcome' = "none"
                 /\ shown' = <<>>
                 /\ store' = store
            ELSE /\ pc' = "name"
                 /\ exit_status' = <<>>
                 /\ locals'.chosen_secret_word
                       \in SetOf(locals'.candidate_secret_words)
         ]_vars
    /\ [][pc # "exit"]_vars

\* the vocabulary file went missing before the second game: the process
\* ended there with status 0
C19_Witness ==
    /\ games = 2
    /\ pc = "exit"
    /\ message = "missing_files"
    /\ ~valid_file.exists
    /\ target_file.exists
    /\ exit_status = <<0>>

(***************************************************************************)
(* Claims about the game beside a faulty score file (SpecFaults).          *)
(***************************************************************************)
\* C17: errors of the score store never abort the game.  The process never
\* ends in the unexpected-error exit: with the word lists in place it ends
\* only by the player's no or by an interrupt at a prompt, so every session
\* started runs on to its prompts; a store that cannot be read is shown as
\* the empty ranking; and a finished session is followed by the replay
\* prompt.
C17_StoreErrorsNeverAbort ==
    /\ message # "unexpected_error"
    /\ pc = "exit" => message \in {"goodbye", "interrupted"}
    /\ ("read" \in io_errors /\ shown # <<>>) => shown[1] = <<>>
    /\ (outcome \in {"Won", "Lost"} /\ pc # "replay") =>
          (pc = "exit" /\ message \in {"goodbye", "interrupted"})

(***************************************************************************)
(* Claims about the score file (SpecBoard).                                *)
(***************************************************************************)
\* the entries of a ranking, or of the entries recorded, with score v
WithScore(entries, v) == {i \in 1..Len(entries) : entries[i].score = v}

\* C11: after k valid scores recorded into a store that was absent at the
\* start, load_high_scores returns exactly min(10, k) entries, each one of
\* the entries recorded, in non-increasing order of score, and every score
\* returned is greater than or equal to every recorded score left out; of
\* 11 recorded scores the 10 returned are the 10 highest.
C11_TopTenOfRecorded ==
    (pc = "board" /\ ~args.initial.exists) =>
        LET recorded == args.recorded
            k == Len(recorded)
            top == Result
            scores == {recorded[i].score : i \in 1..k}
            inTop(v) == Cardinality(WithScore(top, v))
            inRecorded(v) == Cardinality(WithScore(recorded, v))
            leftOut(v) == inTop(v) < inRecorded(v)
        IN  /\ Len(top) = (IF k < 10 THEN k ELSE 10)
            /\ \A i \in 1..(Len(top) - 1) : top[i].score >= top[i + 1].score
            /\ \A i \in 1..Len(top) :
                  /\ top[i].score \in scores
                  /\ \E j \in 1..k :
                        /\ top[i].score = recorded[j].score
                        /\ top[i].name = <<"str", recorded[j].name>>
                        /\ top[i].date = <<"str", recorded[j].date>>
            /\ \A v \in scores : inTop(v) <= inRecorded(v)
            /\ \A v, w \in scores : (leftOut(v) /\ inTop(w) > 0) => w >= v
            /\ k = 11 =>
                  LET least == CHOOSE m \in scores : \A v \in scores : m <= v
                  IN  /\ Len(top) = 10
                      /\ inTop(least) = inRecorded(least) - 1
                      /\ \A v \in scores \ {least} : inTop(v) = inRecorded(v)

\* 11 scores recorded into an absent store, the first of them the lowest
\* and the one left out of the 10 returned
C11_Witness ==
    /\ pc = "board"
    /\ ~args.initial.exists
    /\ Len(args.recorded) = 11
    /\ args.recorded[1].score = 0
    /\ \A i \in 2..11 : args.recorded[i].score = 3600
    /\ Len(Result) = 10
    /\ \A i \in 1..10 : Result[i].score = 3600

\* C14: save_high_score leaves every row that was in the store where it
\* was, writes the header row first when the store is absent (and only
\* then), and appends exactly one row after it: the score in decimal, the
\* name and the current date.  The store grows by one entry per call and
\* is never cut to 10 entries.
C14_SaveAppendsOneEntry ==
    [][pc = "board" =>
          LET entry == args'.recorded[Len(args'.recorded)]
              last == store'.rows[Len(store'.rows)]
              head == IF store.exists THEN <<>>
                      ELSE << << <<"s","c","o","r","e">>, <<"n","a","m","e">>,
                                 <<"d","a","t","e">> >> >>
          IN  /\ store'.exists
              /\ Len(store'.rows) = Len(store.rows) + Len(head) + 1
              /\ SubSeq(store'.rows, 1, Len(store.rows)) = store.rows
              /\ SubSeq(store'.rows, Len(store.rows) + 1, Len(store'.rows) - 1) = head
              /\ Len(last) = 3
              /\ IsDecimal(last[1])
              /\ DecimalValue(last[1]) = entry.score
              /\ last[2] = entry.name
              /\ last[3] = entry.date
              /\ Len(Entries(store')) = Len(Entries(store)) + 1
      ]_vars

\* a store created with its header by the first save, holding 11 entries
C14_Witness ==
    /\ pc = "board"
    /\ ~args.initial.exists
    /\ Len(store.rows) = 12
    /\ store.rows[1] = fieldnames
    /\ Len(Entries(store)) = 11

(***************************************************************************)
(* Claims about load_high_scores (SpecLoad).                               *)
(***************************************************************************)
\* the file has the header the code writes and records of three cells with
\* a decimal score and names that differ from record to record
PlainStore(st) ==
    /\ st.exists
    /\ Len(st.rows) >= 1
    /\ st.rows[1] = << <<"s","c","o","r","e">>, <<"n","a","m","e">>,
                       <<"d","a","t","e">> >>
    /\ \A i \in 2..Len(st.rows) :
          /\ Len(st.rows[i]) = 3
          /\ IsDecimal(st.rows[i][1])
    /\ \A i, j \in 2..Len(st.rows) : i # j => st.rows[i][2] # st.rows[j][2]

\* the row of the file an entry of the ranking was read from
RowOfEntry(st, entry) ==
    CHOOSE i \in 2..Len(st.rows) : entry.name = <<"str", st.rows[i][2]>>

\* C12: two returned entries of equal score are in the order of their rows
\* in the file, and of the records of one score the rows earlier in the
\* file are the ones returned when the cut at 10 entries falls among them.
C12_StableOnTies ==
    (pc = "load" /\ Returned /\ PlainStore(store)) =>
        LET top == Result
            returnedRows == {RowOfEntry(store, top[a]) : a \in 1..Len(top)}
        IN  /\ \A a \in 1..Len(top) :
                  /\ \E i \in 2..Len(store.rows) :
                        top[a].name = <<"str", store.rows[i][2]>>
                  /\ DecimalValue(store.rows[RowOfEntry(store, top[a])][1])
                        = top[a].score
            /\ \A a, b \in 1..Len(top) :
                  (a < b /\ top[a].score = top[b].score) =>
                      RowOfEntry(store, top[a]) < RowOfEntry(store, top[b])
            /\ \A i, j \in 2..Len(store.rows) :
                  (/\ i < j
                   /\ store.rows[i][1] = store.rows[j][1]
                   /\ j \in returnedRows) => i \in returnedRows

\* eleven records, those of the lower score straddling the cut: the second
\* of them is returned last and the third, later in the file, is left out
C12_Witness ==
    /\ pc = "load"
    /\ Returned
    /\ PlainStore(store)
    /\ Len(store.rows) = 12
    /\ Len(Result) = 10
    /\ Result[9].score = 5
    /\ Result[10].score = 5
    /\ RowOfEntry(store, Result[9]) < RowOfEntry(store, Result[10])
    /\ \E i \in 2..Len(store.rows) :
          /\ store.rows[i][1] = <<"5">>
          /\ i > RowOfEntry(store, Result[10])

\* the text of an integer: digits, a sign allowed before them, whitespace
\* allowed around
IntegerText(cell) ==
    LET t == Strip(cell)
    IN  IsDecimal(IF t # <<>> /\ t[1] \in {"+", "-"} THEN Tail(t) ELSE t)

\* the columns of a header named score
ScoreColumns(header) ==
    {c \in 1..Len(header) : header[c] = <<"s","c","o","r","e">>}

\* the records of a file (the rows after its header row, blank rows apart)
\* whose score field is there and is an integer
WellFormedRecords(st) ==
    LET rows == SelectSeq(st.rows, LAMBDA row : row # <<>>)
    IN  {i \in 2..Len(rows) :
            \E c \in ScoreColumns(rows[1]) :
                c <= Len(rows[i]) /\ IntegerText(rows[i][c])}

\* C13: for every content of the store, load_high_scores does not abort and
\* returns the ranking of the records whose score field is an integer: as
\* many entries as there are such records (10 at most), whatever malformed
\* records lie before, between or after them.
C13_MalformedRecordDropsNoOther ==
    (pc = "load" /\ Returned /\ store.exists) =>
        LET n == Cardinality(WellFormedRecords(store))
        IN  /\ message # "error_loading"
            /\ Len(Result) = (IF n < 10 THEN n ELSE 10)

\* the store file is missing, or is there with no byte in it
MissingOrEmpty(st) == ~st.exists \/ st.rows = <<>>

\* C20: of a missing or empty store file load_high_scores returns the empty
\* sequence and reports no error; a game that finds the store so shows the
\* ranking empty wherever it shows it, goes on to the prompt that follows
\* and never ends in the unexpected-error exit.
C20_MissingOrEmptyStore ==
    MissingOrEmpty(store) =>
        /\ (pc = "load" /\ Returned) =>
              /\ Result = <<>>
              /\ message # "error_loading"
        /\ shown # <<>> =>
              /\ shown[1] = <<>>
              /\ pc \in {"name", "replay"}
              /\ exit_status = <<>>
        /\ message # "unexpected_error"
        /\ (pc = "name" /\ message = "welcome") => shown = << <<>> >>
        /\ (outcome = "Lost" /\ message = "correct_word_was") => shown = << <<>> >>

\* a session played to its loss beside a zero-byte store: the ranking was
\* shown empty and the replay prompt follows
C20_Witness ==
    /\ store.exists
    /\ store.rows = <<>>
    /\ outcome = "Lost"
    /\ pc = "replay"
    /\ shown = << <<>> >>

(***************************************************************************)
(* Claims about an interrupted save (SpecCrash).                           *)
(***************************************************************************)
\* C15: when save_high_score is interrupted, before the header is written,
\* between header and record, or part-way through the record, the rows the
\* store had before the call are still its first rows, unchanged, and a
\* later load_high_scores still returns every entry it returned before the
\* call (fewer than 10 here, so none is pushed out), in the same order.
C15_InterruptedSaveKeepsEntries ==
    pc = "loaded" =>
        LET before == load_high_scores(args[1])
            after == Result
            at(i) == CHOOSE j \in 1..Len(after) : after[j] = before[i]
        IN  /\ SubSeq(store.rows, 1, Len(args[1].rows)) = args[1].rows
            /\ \A i \in 1..Len(before) : \E j \in 1..Len(after) : after[j] = before[i]
            /\ \A i, j \in 1..Len(before) : i < j => at(i) < at(j)

(***************************************************************************)
(* Claims about saving and loading again (SpecBoard).                      *)
(***************************************************************************)
\* the scores of the records the score file held when it was found
ScoresFound(st) ==
    [i \in 1..Len(Entries(st)) |-> [score |-> IntOf(Entries(st)[i][1])]]

\* C24: whatever state the score file was found in (absent, zero bytes
\* long, or a header and records), every entry written by save_high_score
\* is returned by the load_high_scores that follows, as long as its score is
\* among the 10 highest in the file: when the entries of a recorded score
\* and the entries of higher scores are no more than 10 together, the
\* ranking holds all the entries of that score.
C24_SavedEntryIsLoaded ==
    pc = "board" =>
        LET recorded == args.recorded
            all == ScoresFound(args.initial) \o recorded
            top == Result
            inAll(v) == Cardinality(WithScore(all, v))
            above(v) == Cardinality({i \in 1..Len(all) : all[i].score > v})
        IN  \A j \in 1..Len(recorded) :
                LET v == recorded[j].score
                IN  above(v) + inAll(v) <= TOP_N =>
                        /\ Cardinality(WithScore(top, v)) = inAll(v)
                        /\ \E i \in 1..Len(top) :
                              /\ top[i].score = v
                              /\ top[i].name = <<"str", recorded[j].name>>
                              /\ top[i].date = <<"str", recorded[j].date>>
====
